---- MODULE Spec2Model ----
(***************************************************************************)
(* The parallel page-rendering pipeline of the Supernote plugin:           *)
(* WorkerPool / ImageConverter (src/src/main.ts) and the render worker     *)
(* (src/src/myworker.worker.ts), with the callers that own a converter.    *)
(*                                                                         *)
(* The main context is one event loop: every action of the main side is    *)
(* one macrotask together with the promise reactions it triggers.  Each    *)
(* worker is its own context; it takes one request, suspends at every      *)
(* `await toImage`, and posts one response.                                *)
(*                                                                         *)
(* After the callers: a client that makes two calls on one converter.      *)
(*                                                                         *)
(* Further down: the device browser, BatchFileManager                      *)
(* (src/src/batch-file-manager.ts) with the connection and the selection   *)
(* of VirtualFolderProvider (src/src/virtual-folder-provider.ts), and the  *)
(* batched downloads of BatchDownloader (src/src/batch-downloader.ts).     *)
(***************************************************************************)
EXTENDS Integers, Sequences, FiniteSets, TLC

\* ------------------------------------------------------------------ bounds
MaxWorkers == 3       \* largest maxWorkers / hardwareConcurrency explored
NotePages == 3        \* number of pages of the note file
MaxTerminate == 2     \* terminate() calls made on one converter
MaxFaults == 1        \* worker contexts that fault
MaxLoads == 3         \* loadFiles() calls made on the file manager
MaxFiles == 4         \* files passed to one downloadFiles call

\* ------------------------------------------------------------------ values
Pools == {1, 2}
Workers == 1..(2 * MaxWorkers)
NoWorker == 0

WorkerId(p, i) == (p - 1) * MaxWorkers + i
PoolOf(w) == ((w - 1) \div MaxWorkers) + 1

Min(a, b) == IF a < b THEN a ELSE b

Run(a, b) == [i \in 1..(b - a + 1) |-> a + i - 1]
Down(a, b) == [i \in 1..(b - a + 1) |-> b - i + 1]

\* page numbers a client may pass: the pages of the note and one past them
PageNums == 1..(NotePages + 1)
PageLists == {Run(1, n) : n \in 0..(NotePages + 1)} \cup {Down(1, n) : n \in PageNums}

\* the optional pageNumbers argument of convertToImages
PageArgs == [given : {TRUE}, list : PageLists] \cup {[given |-> FALSE, list |-> <<>>]}

BufKinds == {"valid", "small", "corrupt", "nopages"}

CallerBuf == 0

NoErr == [name |-> "", message |-> "", worker |-> NoWorker]
Error(msg) == [name |-> "Error", message |-> msg, worker |-> NoWorker]
TypeError(msg) == [name |-> "TypeError", message |-> msg, worker |-> NoWorker]
ErrorEvent(w) == [name |-> "ErrorEvent", message |-> "Worker crashed", worker |-> w]

MsgBufferRequired == "Original buffer is required for image conversion"
MsgTooSmall == "Input buffer is too small or missing."
MsgParse == "Failed to parse Supernote file: "
MsgNoPages == "SupernoteX parsing failed: no pages found. File may be invalid."
MsgNoImages == "No images generated from any pages. File may be invalid or empty."
MsgUndefinedWorker == "Cannot set properties of undefined (setting 'onmessage')"
MsgDetached == "Cannot perform ArrayBuffer.prototype.slice on a detached ArrayBuffer"
MsgUndefinedBuffer == "Cannot read properties of undefined (reading 'buffer')"

\* toImage(sn, [pageNum])[0].toDataURL()
ToDataURL(pageNum) == [png |-> pageNum]

NoHandler == [call |-> 0, idx |-> 0]
Idle == [kind |-> "none", pc |-> "idle", pool |-> 1, hardwareConcurrency |-> 0]
NoCall ==
    [id |-> 0, status |-> "none", pages |-> <<>>, hasBuffer |-> TRUE,
     workerCount |-> 0, afterTerminate |-> 0,
     chunks |-> <<>>, chunkStatus |-> <<>>, chunkValue |-> <<>>,
     chunkError |-> <<>>,
     dispatches |-> <<>>, result |-> <<>>, error |-> NoErr]

\* mutant: the chunk results concatenated last chunk first
RECURSIVE FlatReversed(_)
FlatReversed(ss) == IF ss = <<>> THEN <<>> ELSE FlatReversed(Tail(ss)) \o Head(ss)

RECURSIVE Flat(_)
Flat(ss) == IF ss = <<>> THEN <<>> ELSE Head(ss) \o Flat(Tail(ss))

\* --------------------------------------------------------------- variables
VARIABLES
    badPages,        \* pages whose rasterization throws or yields no image
    bufKind,         \* what the bytes of the source file decode to
    constructed,     \* pool -> the converter has been constructed
    workers,         \* pool -> WorkerPool.workers
    terminateCalls,  \* pool -> number of terminate() calls made
    callsMade,       \* pool -> number of convertToImages calls made
    call,            \* pool -> the latest convertToImages call
    wstate,          \* worker -> "none" | "alive" | "terminated"
    termCount,       \* worker -> number of Worker.terminate() calls on it
    faulted,         \* worker -> its context has faulted
    onmessage,       \* worker -> handler installed on the main side
    onerror,         \* worker -> handler installed on the main side
    inbox,           \* worker -> requests posted, not yet taken
    outbox,          \* worker -> responses posted, not yet delivered
    nextBuf,         \* next fresh ArrayBuffer identity
    detached,        \* ArrayBuffer identities detached on the main side
    caller,          \* the caller that owns converters: where it stands
    earlier,         \* pool -> the convertToImages call before the latest
    pdf,             \* the pages of the PDF generatePDFFromSupernote built
    dirLoads,        \* loadDirectoryFiles calls that have not settled
    selectedFiles,   \* BatchFileManager.selectedFiles: a Set of file objects
    currentPath,     \* BatchFileManager.currentPath
    currentFiles,    \* BatchFileManager.currentFiles
    loadsMade,       \* number of loadFiles() calls made
    listed,          \* file objects handed out by loadFiles() so far
    fetching,        \* fetches of loadFiles() calls that have not settled
    lastToggle,      \* isFileSelected(file) before and after the latest toggle
    directConnectIP, \* settings.directConnectIP
    connectionState, \* VirtualFolderProvider.connectionState
    lastError,       \* VirtualFolderProvider.lastError
    attempt,         \* the attemptConnection call in progress, if any
    vfSelectedFiles, \* VirtualFolderProvider.selectedFiles: a Set of file paths
    selectionMode,   \* VirtualFolderProvider.selectionMode
    lastClickedFile, \* VirtualFolderProvider.lastClickedFile
    lastClick,       \* the latest click on a file of the virtual folder
    operation,       \* "downloadFiles" | "convertFiles": the batch call made
    files,           \* downloadFiles: the files passed
    batchStart,      \* downloadFiles: i of the batch loop
    download,        \* downloadFiles: file -> where its download stands
    result,          \* downloadFiles: result.successful and result.failed
    downloadFiles    \* downloadFiles: "idle" | "running" | "resolved"

poolVars == <<badPages, bufKind, constructed, workers, terminateCalls, callsMade,
              call, wstate, termCount, faulted, onmessage, onerror, inbox,
              outbox, nextBuf, detached>>
managerVars == <<selectedFiles, currentPath, currentFiles, loadsMade, listed,
                 fetching, lastToggle>>
providerVars == <<directConnectIP, connectionState, lastError, attempt>>
selectionVars == <<vfSelectedFiles, selectionMode, lastClickedFile, lastClick>>
downloadVars == <<operation, files, batchStart, download, result, downloadFiles>>
moreVars == <<earlier, pdf, dirLoads>>
appVars == <<managerVars, providerVars, selectionVars, downloadVars, moreVars>>

vars == <<poolVars, caller, appVars>>

envVars == <<badPages, bufKind>>
workerVars == <<wstate, termCount, faulted, inbox, outbox>>
handlerVars == <<onmessage, onerror>>
bufVars == <<nextBuf, detached>>

\* ------------------------------------------------- the device, its browser
\* the file list the device serves at a path (SupernoteResponse.fileList)
Entry(name, uri, extension, isDirectory) ==
    [name |-> name, uri |-> uri, extension |-> extension,
     isDirectory |-> isDirectory]

FileList(path) ==
    IF path = "/"
    THEN <<Entry("a.note", "/a.note", "note", FALSE),
           Entry("b.pdf", "/b.pdf", "pdf", FALSE),
           Entry("d", "/d/", "", TRUE)>>
    ELSE IF path = "/d/"
    THEN <<Entry("c.note", "/d/c.note", "note", FALSE)>>
    ELSE <<>>

DevicePaths == {"/", "/d/"}

\* JSON.parse(match[1]).fileList: new objects at every load; ref stands for
\* the identity of the objects of one load
Parse(path, ref) ==
    [i \in 1..Len(FileList(path)) |->
        [name |-> FileList(path)[i].name, uri |-> FileList(path)[i].uri,
         extension |-> FileList(path)[i].extension,
         isDirectory |-> FileList(path)[i].isDirectory, ref |-> ref]]

Elems(xs) == {xs[i] : i \in 1..Len(xs)}

\* what a fetch of the file list can come to
FetchOutcomes == {"ok", "unreachable", "status", "nodata"}

MsgFailedToFetch == "Failed to fetch"
MsgStatus == "Failed to fetch file list: Not Found"
MsgNoData == "Could not find file list data"
MsgNoIP == "No IP address configured"
MsgCancelled == "Connection cancelled by user"

\* the error thrown inside the try block of loadFiles
FetchError(outcome) ==
    CASE outcome = "unreachable" -> MsgFailedToFetch
      [] outcome = "status" -> MsgStatus
      [] outcome = "nodata" -> MsgNoData
      [] OTHER -> ""

Null == "null"
IPs == {"", "supernote.local", "192.168.1.100"}

\* /^(\d{1,3}\.){3}\d{1,3}$/.test(ip)
DottedQuad(ip) == ip \in {"192.168.1.100"}

\* ip && ip.length > 0 && the pattern
HasValidIP(ip) == ip # "" /\ DottedQuad(ip)

NoFile ==
    [name |-> "", uri |-> "", extension |-> "", isDirectory |-> TRUE, ref |-> 0]
NoToggle == [made |-> FALSE, isDirectory |-> FALSE, was |-> FALSE, is |-> FALSE]
NoAttempt == [pc |-> "idle", manual |-> FALSE, outcome |-> "none"]
NoClick == [made |-> FALSE, ctrl |-> FALSE, shift |-> FALSE,
            path |-> Null, last |-> Null]

FileIds == 1..MaxFiles
Queued == [status |-> "queued", retryCount |-> 0, error |-> NoErr]
NoResult == [successful |-> <<>>, failed |-> <<>>]

InitFolder ==
    /\ selectedFiles = {}
    /\ currentPath = "/"
    /\ currentFiles = <<>>
    /\ loadsMade = 0
    /\ listed = {}
    /\ fetching = {}
    /\ lastToggle = NoToggle
    /\ directConnectIP = "192.168.1.100"
    /\ connectionState = "disconnected"
    /\ lastError = Null
    /\ attempt = NoAttempt
    /\ vfSelectedFiles = {}
    /\ selectionMode = FALSE
    /\ lastClickedFile = Null
    /\ lastClick = NoClick
    /\ operation = "none"
    /\ files = <<>>
    /\ batchStart = 0
    /\ download = [f \in FileIds |-> Queued]
    /\ result = NoResult
    /\ downloadFiles = "idle"

Init ==
    /\ InitFolder
    /\ bufKind \in BufKinds
    /\ badPages \in SUBSET (1..NotePages)
    /\ bufKind # "valid" => badPages = {}
    /\ constructed = [p \in Pools |-> FALSE]
    /\ workers = [p \in Pools |-> <<>>]
    /\ terminateCalls = [p \in Pools |-> 0]
    /\ callsMade = [p \in Pools |-> 0]
    /\ call = [p \in Pools |-> NoCall]
    /\ wstate = [w \in Workers |-> "none"]
    /\ termCount = [w \in Workers |-> 0]
    /\ faulted = [w \in Workers |-> FALSE]
    /\ onmessage = [w \in Workers |-> NoHandler]
    /\ onerror = [w \in Workers |-> NoHandler]
    /\ inbox = [w \in Workers |-> <<>>]
    /\ outbox = [w \in Workers |-> <<>>]
    /\ nextBuf = 1
    /\ detached = {}
    /\ caller = Idle
    /\ earlier = [p \in Pools |-> NoCall]
    /\ pdf = <<>>
    /\ dirLoads = {}

\* a note file that parses and all of whose pages rasterize
InitOneFile == Init /\ bufKind = "valid" /\ badPages = {}

\* ------------------------------------------------------------- constructor
\* Array(maxWorkers).fill(null).map(() => new Worker())
NewWorkers(p, maxWorkers) == [i \in 1..maxWorkers |-> WorkerId(p, i)]

NewImageConverter(p, maxWorkers) ==
    /\ ~constructed[p]
    /\ constructed' = [constructed EXCEPT ![p] = TRUE]
    /\ workers' = [workers EXCEPT ![p] = NewWorkers(p, maxWorkers)]
    /\ wstate' = [w \in Workers |->
                    IF \E i \in 1..maxWorkers : w = WorkerId(p, i)
                    THEN "alive" ELSE wstate[w]]
    /\ UNCHANGED <<envVars, terminateCalls, callsMade, call, termCount,
                   faulted, handlerVars, inbox, outbox, bufVars>>

\* ---------------------------------------------------------------- chunking
\* mutant: the quotient is rounded down
ChunkSizeFloor(n, workerCount) ==
    IF workerCount = 0
    THEN (IF n = 0 THEN 0 ELSE n + 1)
    ELSE IF n \div workerCount = 0 THEN n
    ELSE n \div workerCount

\* mutant: one page per chunk
ChunkSizeOne(n, workerCount) == IF n = 0 THEN 0 ELSE 1

\* Math.ceil(n / workerCount); n / 0 is Infinity (any size past the list)
\* and 0 / 0 is NaN (the loop below then never runs)
ChunkSize(n, workerCount) ==
    IF workerCount = 0
    THEN (IF n = 0 THEN 0 ELSE n + 1)
    ELSE (n + workerCount - 1) \div workerCount

\* for (let i = 0; i < len; i += chunkSize) chunks.push(slice(i, i + chunkSize))
RECURSIVE ChunkLoop(_, _, _, _)
ChunkLoop(allPageNumbers, chunkSize, i, chunks) ==
    IF i < Len(allPageNumbers)
    THEN ChunkLoop(allPageNumbers, chunkSize, i + chunkSize,
                   Append(chunks, SubSeq(allPageNumbers, i + 1,
                                         Min(i + chunkSize, Len(allPageNumbers)))))
    ELSE chunks

Chunks(allPageNumbers, workerCount) ==
    ChunkLoop(allPageNumbers, ChunkSize(Len(allPageNumbers), workerCount), 0, <<>>)

\* mutant: every chunk goes to the first worker
ChunkWorkerFirst(ws, index) ==
    IF Len(ws) = 0 THEN NoWorker ELSE ws[1]

\* this.workers[index % this.workers.length], index counted from 0;
\* index % 0 is NaN and workers[NaN] is undefined
ChunkWorker(ws, index) ==
    IF Len(ws) = 0 THEN NoWorker ELSE ws[(index % Len(ws)) + 1]

\* ------------------------------------------------------------ processChunk
\* mutant: the caller's own ArrayBuffer is transferred
ShareBuffer(fresh) == CallerBuf

\* originalBuffer.buffer.slice(0): a new ArrayBuffer with the same bytes
CloneBuffer(fresh) == fresh

\* The dispatcher state threaded through chunks.map(...)
DispatchState ==
    [onmessage |-> onmessage, onerror |-> onerror, inbox |-> inbox,
     nextBuf |-> nextBuf, detached |-> detached,
     chunkStatus |-> <<>>, chunkError |-> <<>>, dispatches |-> <<>>]

Rejected(d, err) ==
    [d EXCEPT !.chunkStatus = Append(@, "rejected"),
              !.chunkError = Append(@, err)]

\* An exception thrown inside the promise executor rejects the chunk promise:
\* an undefined worker throws at `worker.onmessage =`, an undefined or
\* detached source buffer at `originalBuffer.buffer.slice(0)`, after the
\* handlers have been installed.
ProcessChunk(d, id, index, worker, pageNumbers, hasBuffer) ==
    IF worker = NoWorker
    THEN Rejected(d, TypeError(MsgUndefinedWorker))
    ELSE LET h == [call |-> id, idx |-> index + 1]
             d1 == [d EXCEPT !.onmessage[worker] = h, !.onerror[worker] = h]
             buf == CloneBuffer(d.nextBuf)
         IN  IF ~hasBuffer
             THEN Rejected(d1, TypeError(MsgUndefinedBuffer))
             ELSE IF CallerBuf \in d.detached \/ buf \in d.detached
             THEN Rejected(d1, TypeError(MsgDetached))
             ELSE [d1 EXCEPT
                     !.inbox[worker] =
                         Append(@, [noteBuffer |-> buf, pageNumbers |-> pageNumbers]),
                     !.detached = @ \cup {buf},
                     !.nextBuf = @ + 1,
                     !.chunkStatus = Append(@, "pending"),
                     !.chunkError = Append(@, NoErr),
                     !.dispatches = Append(@, [worker |-> worker, buffer |-> buf])]

\* mutant: the dispatcher awaits the first chunk before it posts the next
MapChunksPipelined(d, id, ws, chunks, index, hasBuffer) ==
    IF index >= Len(chunks) THEN d
    ELSE ProcessChunk(d, id, index, ChunkWorker(ws, index),
                      chunks[index + 1], hasBuffer)

\* chunks.map((chunk, index) => this.processChunk(workers[index % n], ...))
RECURSIVE MapChunks(_, _, _, _, _, _)
MapChunks(d, id, ws, chunks, index, hasBuffer) ==
    IF index >= Len(chunks) THEN d
    ELSE MapChunks(ProcessChunk(d, id, index, ChunkWorker(ws, index),
                                chunks[index + 1], hasBuffer),
                   id, ws, chunks, index + 1, hasBuffer)

\* ------------------------------------------------------------- Promise.all
FirstRejected(chunkStatus) ==
    CHOOSE k \in 1..Len(chunkStatus) :
        /\ chunkStatus[k] = "rejected"
        /\ \A j \in 1..(k - 1) : chunkStatus[j] # "rejected"

\* Promise.all's reaction to one chunk promise rejecting
AnyRejected(c, err) ==
    IF c.status = "pending"
    THEN [c EXCEPT !.status = "rejected", !.error = err]
    ELSE c

\* mutant: Promise.all of no promise never settles
AllResolvedNonEmpty(c) ==
    IF /\ c.status = "pending"
       /\ Len(c.chunkStatus) >= 1
       /\ \A k \in 1..Len(c.chunkStatus) : c.chunkStatus[k] = "resolved"
    THEN [c EXCEPT !.status = "resolved", !.result = Flat(c.chunkValue)]
    ELSE c

\* Promise.all's reaction to a chunk promise resolving, then results.flat()
AllResolved(c) ==
    IF /\ c.status = "pending"
       /\ \A k \in 1..Len(c.chunkStatus) : c.chunkStatus[k] = "resolved"
    THEN [c EXCEPT !.status = "resolved", !.result = Flat(c.chunkValue)]
    ELSE c

\* the outcome of `await Promise.all(...)` once every chunk promise created
\* synchronously by chunks.map has its first status
AwaitAll(c, chunkError) ==
    IF \E k \in 1..Len(c.chunkStatus) : c.chunkStatus[k] = "rejected"
    THEN AnyRejected(c, chunkError[FirstRejected(c.chunkStatus)])
    ELSE AllResolved(c)

\* ------------------------------------------------------------ processPages
ProcessPages(p, c) ==
    LET chunks == Chunks(c.pages, Len(workers[p]))
        d == MapChunks(DispatchState, c.id, workers[p], chunks, 0, c.hasBuffer)
        c1 == [c EXCEPT !.status = "pending",
                        !.chunks = chunks,
                        !.chunkStatus = d.chunkStatus,
                        !.chunkError = d.chunkError,
                        !.chunkValue = [k \in 1..Len(chunks) |-> <<>>],
                        !.dispatches = d.dispatches]
    IN  /\ call' = [call EXCEPT ![p] = AwaitAll(c1, d.chunkError)]
        /\ onmessage' = d.onmessage
        /\ onerror' = d.onerror
        /\ inbox' = d.inbox
        /\ nextBuf' = d.nextBuf
        /\ detached' = d.detached

\* --------------------------------------------------------- convertToImages
\* mutant: the precondition is not checked
BufferNeverMissing(hasBuffer) == FALSE

\* if (!originalBuffer)
BufferMissing(hasBuffer) == ~hasBuffer

\* pageNumbers ?? Array.from({length: note.pages.length}, (_, i) => i + 1);
\* note is the number of pages of the note object passed
DefaultPages(note, arg) == IF arg.given THEN arg.list ELSE Run(1, note)

ConvertToImages(p, note, arg, hasBuffer) ==
    /\ constructed[p]
    /\ callsMade' = [callsMade EXCEPT ![p] = @ + 1]
    /\ LET c == [NoCall EXCEPT !.id = callsMade[p] + 1,
                               !.pages = DefaultPages(note, arg),
                               !.hasBuffer = hasBuffer,
                               !.workerCount = Len(workers[p]),
                               !.afterTerminate = terminateCalls[p]]
       IN  IF BufferMissing(hasBuffer)
           THEN /\ call' = [call EXCEPT ![p] =
                        [c EXCEPT !.status = "rejected",
                                  !.error = Error(MsgBufferRequired)]]
                /\ UNCHANGED <<handlerVars, inbox, bufVars>>
           ELSE ProcessPages(p, c)
    /\ UNCHANGED <<envVars, constructed, workers, terminateCalls, wstate,
                   termCount, faulted, outbox>>

\* ----------------------------------------------------- resolve and reject
ResolveChunk(c, k, images) ==
    IF c.chunkStatus[k] # "pending" THEN c
    ELSE AllResolved([c EXCEPT !.chunkStatus[k] = "resolved",
                               !.chunkValue[k] = images])

RejectChunk(c, k, err) ==
    IF c.chunkStatus[k] # "pending" THEN c
    ELSE AnyRejected([c EXCEPT !.chunkStatus[k] = "rejected",
                               !.chunkError[k] = err], err)

\* mutant: the error text of the worker is dropped
OnMessageUnknown(c, k, data) ==
    IF data.error # ""
    THEN RejectChunk(c, k, Error("Unknown error occurred"))
    ELSE ResolveChunk(c, k, data.images)

\* worker.onmessage = (e) => e.data.error ? reject(new Error(..)) : resolve(..)
OnMessage(c, k, data) ==
    IF data.error # ""
    THEN RejectChunk(c, k, Error(data.error))
    ELSE ResolveChunk(c, k, data.images)

\* mutant: the fault is logged and the promise left alone
OnErrorLogOnly(c, k, event) == c

\* worker.onerror = (error) => reject(error)
OnError(c, k, event) == RejectChunk(c, k, event)

\* the handler closes over the promise of one chunk of one call
Targets(p, h) == h.idx >= 1 /\ h.call = call[p].id

\* ------------------------------------------------------------------ worker
\* mutant: the worker does not look at the buffer before it renders
ValidateNothing(kind) == ""

\* the checks made before any page is processed; "" when they all pass
ValidateBuffer(kind) ==
    CASE kind = "small" -> MsgTooSmall
      [] kind = "corrupt" -> MsgParse
      [] kind = "nopages" -> MsgNoPages
      [] OTHER -> ""

\* one iteration of `for (const pageNum of pageNumbers)`
RenderPage(results, pageNum) ==
    IF pageNum < 1 \/ pageNum > NotePages THEN results
    ELSE IF pageNum \in badPages THEN results
    ELSE Append(results, ToDataURL(pageNum))

\* mutant: an empty result is posted as a success
ResponseNoError(results) == [images |-> results, error |-> ""]

\* results.length > 0 ? {images: results} : {images: [], error: ...}
Response(results) ==
    IF Len(results) > 0
    THEN [images |-> results, error |-> ""]
    ELSE [images |-> <<>>, error |-> MsgNoImages]

\* mutant: the first failing page ends the loop
RECURSIVE RenderPagesAbort(_, _, _)
RenderPagesAbort(results, pageNumbers, i) ==
    IF i > Len(pageNumbers) THEN results
    ELSE IF pageNumbers[i] \in badPages THEN results
    ELSE RenderPagesAbort(RenderPage(results, pageNumbers[i]), pageNumbers, i + 1)

\* for (const pageNum of pageNumbers) { ... }
RECURSIVE RenderPages(_, _, _)
RenderPages(results, pageNumbers, i) ==
    IF i > Len(pageNumbers) THEN results
    ELSE RenderPages(RenderPage(results, pageNumbers[i]), pageNumbers, i + 1)

\* self.onmessage of the worker: one request in, one response out
Convert(msg) ==
    IF ValidateBuffer(bufKind) # ""
    THEN [images |-> <<>>, error |-> ValidateBuffer(bufKind)]
    ELSE Response(RenderPages(<<>>, msg.pageNumbers, 1))

WorkerOnMessage(w) ==
    /\ wstate[w] = "alive" /\ ~faulted[w]
    /\ inbox[w] # <<>>
    /\ inbox' = [inbox EXCEPT ![w] = Tail(@)]
    /\ outbox' = [outbox EXCEPT ![w] = Append(@, Convert(Head(inbox[w])))]
    /\ UNCHANGED <<envVars, constructed, workers, terminateCalls, callsMade,
                   call, wstate, termCount, faulted, handlerVars, bufVars>>

\* the main context receives a message event of worker w
Deliver(w) ==
    /\ wstate[w] = "alive"
    /\ outbox[w] # <<>>
    /\ outbox' = [outbox EXCEPT ![w] = Tail(@)]
    /\ LET p == PoolOf(w)
           h == onmessage[w]
       IN  call' = IF Targets(p, h)
                   THEN [call EXCEPT ![p] = OnMessage(@, h.idx, Head(outbox[w]))]
                   ELSE call
    /\ UNCHANGED <<envVars, constructed, workers, terminateCalls, callsMade,
                   wstate, termCount, faulted, handlerVars, inbox, bufVars>>

\* the worker's context faults: its error event fires on the main side
WorkerFault(w) ==
    /\ wstate[w] = "alive" /\ ~faulted[w]
    /\ Cardinality({v \in Workers : faulted[v]}) < MaxFaults
    /\ faulted' = [faulted EXCEPT ![w] = TRUE]
    /\ LET p == PoolOf(w)
           h == onerror[w]
       IN  call' = IF Targets(p, h)
                   THEN [call EXCEPT ![p] = OnError(@, h.idx, ErrorEvent(w))]
                   ELSE call
    /\ UNCHANGED <<envVars, constructed, workers, terminateCalls, callsMade,
                   wstate, termCount, handlerVars, inbox, outbox, bufVars>>

\* --------------------------------------------------------------- terminate
\* mutant: the array of workers is not cleared
KeepWorkers(ws) == ws

\* this.workers = []
WorkersAfterTerminate(ws) == <<>>

\* mutant: forEach visits no worker, the contexts keep running
InSeqNever(x, ws) == FALSE

InSeq(x, ws) == \E i \in 1..Len(ws) : ws[i] = x

\* worker.terminate() ends the worker's context: its queues are discarded and
\* no event of it is delivered any more; the Worker object, dropped from the
\* array, is unreachable and its handlers with it
Terminate(p) ==
    /\ constructed[p]
    /\ terminateCalls[p] < MaxTerminate
    /\ terminateCalls' = [terminateCalls EXCEPT ![p] = @ + 1]
    /\ wstate' = [w \in Workers |->
                    IF InSeq(w, workers[p]) THEN "terminated" ELSE wstate[w]]
    /\ termCount' = [w \in Workers |->
                    IF InSeq(w, workers[p]) THEN termCount[w] + 1 ELSE termCount[w]]
    /\ inbox' = [w \in Workers |-> IF InSeq(w, workers[p]) THEN <<>> ELSE inbox[w]]
    /\ outbox' = [w \in Workers |-> IF InSeq(w, workers[p]) THEN <<>> ELSE outbox[w]]
    /\ faulted' = [w \in Workers |-> IF InSeq(w, workers[p]) THEN FALSE ELSE faulted[w]]
    /\ onmessage' = [w \in Workers |->
                    IF InSeq(w, WorkersAfterTerminate(workers[p])) \/ ~InSeq(w, workers[p])
                    THEN onmessage[w] ELSE NoHandler]
    /\ onerror' = [w \in Workers |->
                    IF InSeq(w, WorkersAfterTerminate(workers[p])) \/ ~InSeq(w, workers[p])
                    THEN onerror[w] ELSE NoHandler]
    /\ workers' = [workers EXCEPT ![p] = WorkersAfterTerminate(@)]
    /\ UNCHANGED <<envVars, constructed, callsMade, call, bufVars>>

\* ------------------------------------------------- one converter, its client
\* A converter serves one conversion (main.ts:193-199, 236-242, 370-375);
\* the client of this specification keeps to that, and may also call
\* terminate() at any moment and misuse the converter once more after each
\* terminate().
ClientConvert(p, arg, hasBuffer) ==
    /\ callsMade[p] <= terminateCalls[p]
    /\ ConvertToImages(p, NotePages, arg, hasBuffer)
    /\ UNCHANGED <<caller, appVars>>

ClientConstruct(p, maxWorkers) ==
    NewImageConverter(p, maxWorkers) /\ UNCHANGED <<caller, appVars>>

ClientTerminate(p) ==
    Terminate(p) /\ UNCHANGED <<caller, appVars>>

Environment ==
    /\ \/ \E w \in Workers : WorkerOnMessage(w)
       \/ \E w \in Workers : Deliver(w)
       \/ \E w \in Workers : WorkerFault(w)
    /\ UNCHANGED <<caller, appVars>>

Next ==
    \/ \E maxWorkers \in 0..MaxWorkers : ClientConstruct(1, maxWorkers)
    \/ \E arg \in PageArgs, hasBuffer \in BOOLEAN : ClientConvert(1, arg, hasBuffer)
    \/ ClientTerminate(1)
    \/ Environment

Spec == Init /\ [][Next]_vars

\* ------------------------------------------------------------- the callers
\* VaultWriter.writeImageFiles, VaultWriter.generatePDFFromSupernote,
\* SupernoteView.loadNoteData and BatchDownloader.convertSingleFile: each
\* parses the file on the main side, then
\*     const converter = new ImageConverter();
\*     try { images = await converter.convertToImages(sn, undefined, buffer) }
\*     finally { converter.terminate() }
Kinds == {"writeImageFiles", "generatePDFFromSupernote", "loadNoteData",
          "convertSingleFile"}

\* new SupernoteX(buffer) on the main side throws on bytes that do not parse
ParseThrows == bufKind \in {"small", "corrupt"}

\* sn.pages.length of the note parsed on the main side
ParsedPages == IF bufKind = "nopages" THEN 0 ELSE NotePages

CallerEnter(kind, hc) ==
    /\ caller.pc = "idle"
    /\ caller' =
         IF ParseThrows \/ (kind = "convertSingleFile" /\ ParsedPages = 0)
         THEN [caller EXCEPT !.kind = kind, !.pc = "failed"]
         ELSE [kind |-> kind, pc |-> "construct", pool |-> 1,
               hardwareConcurrency |-> hc]
    /\ UNCHANGED <<envVars, constructed, workers, terminateCalls, callsMade,
                   call, workerVars, handlerVars, bufVars, appVars>>

CallerConstruct ==
    /\ caller.pc = "construct"
    /\ NewImageConverter(caller.pool, caller.hardwareConcurrency)
    /\ caller' = [caller EXCEPT !.pc = "convert"]
    /\ UNCHANGED appVars

CallerConvert ==
    /\ caller.pc = "convert"
    /\ ConvertToImages(caller.pool, ParsedPages, [given |-> FALSE, list |-> <<>>], TRUE)
    /\ caller' = [caller EXCEPT !.pc = "await"]
    /\ UNCHANGED appVars

\* mutant: terminate() follows the await inside the try block
TerminateOnSuccessOnly(status) == status = "resolved"

\* finally { converter.terminate() } runs however the await ends
RunsFinally(status) == TRUE

\* where the caller continues once the await has ended and finally has run
Continue(kind, pool, c) ==
    IF c.status = "rejected" THEN [pc |-> "failed", pool |-> pool]
    ELSE IF kind = "convertSingleFile" /\ Len(c.result) = 0
    THEN [pc |-> "failed", pool |-> pool]
    ELSE IF kind = "loadNoteData" /\ pool = 1 /\ ParsedPages > 0
    THEN [pc |-> "construct", pool |-> 2]
    ELSE [pc |-> "done", pool |-> pool]

\* sn.pages[i].text of the note parsed on the main side, i counted from 0:
\* the recognized text of note page i + 1
PageText(i) == [textOf |-> i + 1]

\* for (let i = 0; i < images.length; i++): one PDF page with the text of
\* sn.pages[i] and the image images[i]
GeneratePDF(images) ==
    [n \in 1..Len(images) |-> [text |-> PageText(n - 1), image |-> images[n]]]

CallerFinally ==
    /\ caller.pc = "await"
    /\ call[caller.pool].status \in {"resolved", "rejected"}
    /\ IF RunsFinally(call[caller.pool].status)
       THEN Terminate(caller.pool)
       ELSE UNCHANGED <<envVars, constructed, workers, terminateCalls,
                        callsMade, call, workerVars, handlerVars, bufVars>>
    /\ LET next == Continue(caller.kind, caller.pool, call[caller.pool])
       IN  caller' = [caller EXCEPT !.pc = next.pc, !.pool = next.pool]
    /\ pdf' = IF /\ caller.kind = "generatePDFFromSupernote"
                 /\ call[caller.pool].status = "resolved"
              THEN GeneratePDF(call[caller.pool].result)
              ELSE pdf
    /\ UNCHANGED <<managerVars, providerVars, selectionVars, downloadVars,
                   earlier, dirLoads>>

NextCallers ==
    \/ \E kind \in Kinds, hc \in 1..MaxWorkers : CallerEnter(kind, hc)
    \/ CallerConstruct
    \/ CallerConvert
    \/ CallerFinally
    \/ Environment

SpecCallers == Init /\ [][NextCallers]_vars

\* ------------------------------------------- two calls on one converter
\* A client that calls convertToImages again on the same converter without
\* awaiting the first call.  processChunk assigns worker.onmessage and
\* worker.onerror anew, so a worker serves the handlers of the chunk posted
\* to it last; the promise of the chunk posted before keeps no handler.
notPool == <<caller, managerVars, providerVars, selectionVars, downloadVars,
             pdf, dirLoads>>

OverlapConvert(p, arg) ==
    /\ earlier[p].status = "none"
    /\ earlier' = [earlier EXCEPT ![p] = call[p]]
    /\ ConvertToImages(p, NotePages, arg, TRUE)
    /\ UNCHANGED notPool

\* the handler installed on w closes over a chunk promise of call c
TargetsCall(c, h) == h.idx >= 1 /\ h.call = c.id

\* the main context receives a message event of worker w
OverlapDeliver(w) ==
    LET p == PoolOf(w)
        h == onmessage[w]
    IN  IF TargetsCall(earlier[p], h) /\ ~Targets(p, h)
        THEN /\ wstate[w] = "alive"
             /\ outbox[w] # <<>>
             /\ outbox' = [outbox EXCEPT ![w] = Tail(@)]
             /\ earlier' = [earlier EXCEPT ![p] =
                                OnMessage(@, h.idx, Head(outbox[w]))]
             /\ UNCHANGED <<envVars, constructed, workers, terminateCalls,
                            callsMade, call, wstate, termCount, faulted,
                            handlerVars, inbox, bufVars, notPool>>
        ELSE Deliver(w) /\ UNCHANGED <<earlier, notPool>>

NextOverlap ==
    \/ \E maxWorkers \in 1..MaxWorkers : ClientConstruct(1, maxWorkers)
    \/ \E arg \in PageArgs : OverlapConvert(1, arg)
    \/ \E w \in Workers : WorkerOnMessage(w) /\ UNCHANGED <<caller, appVars>>
    \/ \E w \in Workers : OverlapDeliver(w)

SpecOverlap == InitOneFile /\ [][NextOverlap]_vars

\* --------------------------------------------------------- BatchFileManager
\* `${file.uri}:${file.name}`
GetFileKey(file) == file.uri \o ":" \o file.name

\* mutant: directories are taken for files
SelectableAny(file) == TRUE

\* if (file.isDirectory) return;  and  if (!file.isDirectory) { ... }
Selectable(file) == ~file.isDirectory

IsFileSelectedIn(selected, file) ==
    /\ ~file.isDirectory
    /\ \E s \in selected : GetFileKey(s) = GetFileKey(file)

IsFileSelected(file) == IsFileSelectedIn(selectedFiles, file)

GetSelectionCount == Cardinality(selectedFiles)

\* Set.delete and Set.add go by the identity of the object
ToggleFileSelection(file) ==
    /\ selectedFiles' =
         IF ~Selectable(file) THEN selectedFiles
         ELSE IF IsFileSelected(file) THEN selectedFiles \ {file}
         ELSE selectedFiles \cup {file}
    /\ lastToggle' = [made |-> TRUE, isDirectory |-> file.isDirectory,
                       was |-> IsFileSelected(file),
                       is |-> IsFileSelectedIn(selectedFiles', file)]
    /\ UNCHANGED <<currentPath, currentFiles, loadsMade, listed, fetching>>

ClearSelection ==
    /\ selectedFiles' = {}
    /\ UNCHANGED <<currentPath, currentFiles, loadsMade, listed, fetching,
                   lastToggle>>

SelectAll ==
    /\ selectedFiles' =
         selectedFiles \cup {f \in Elems(currentFiles) : Selectable(f)}
    /\ UNCHANGED <<currentPath, currentFiles, loadsMade, listed, fetching,
                   lastToggle>>

NavigateToDirectory(dir) ==
    /\ IF dir.isDirectory
       THEN currentPath' = dir.uri /\ selectedFiles' = {}
       ELSE UNCHANGED <<currentPath, selectedFiles>>
    /\ UNCHANGED <<currentFiles, loadsMade, listed, fetching, lastToggle>>

\* path.split('/').filter(Boolean), for the paths of the device
PathParts(path) == IF path = "/d/" THEN <<"d">> ELSE <<>>

RECURSIVE Join(_)
Join(parts) ==
    IF parts = <<>> THEN ""
    ELSE IF Len(parts) = 1 THEN parts[1]
    ELSE parts[1] \o "/" \o Join(Tail(parts))

\* pathParts.pop(); '/' + pathParts.join('/') + (pathParts.length > 0 ? '/' : '')
ParentPath(path) ==
    LET pathParts == SubSeq(PathParts(path), 1, Len(PathParts(path)) - 1)
    IN  "/" \o Join(pathParts) \o (IF Len(pathParts) > 0 THEN "/" ELSE "")

NavigateUp ==
    /\ IF currentPath # "/"
       THEN currentPath' = ParentPath(currentPath) /\ selectedFiles' = {}
       ELSE UNCHANGED <<currentPath, selectedFiles>>
    /\ UNCHANGED <<currentFiles, loadsMade, listed, fetching, lastToggle>>

\* loadFiles(path?) up to its `await fetch(...)`
Fetch(path, ref, by) == [url |-> path, ref |-> ref, by |-> by]

LoadFiles(pathArg, by) ==
    LET path == IF pathArg # "" THEN pathArg ELSE currentPath IN
    /\ loadsMade < MaxLoads
    /\ loadsMade' = loadsMade + 1
    /\ currentPath' = path
    /\ fetching' = fetching \cup {Fetch(path, loadsMade + 1, by)}
    /\ UNCHANGED <<selectedFiles, currentFiles, listed, lastToggle>>

\* catch (err) { new Notice(...); return []; }: whatever is thrown inside the
\* try block, loadFiles returns
LoadFilesThrows(outcome) == FALSE

\* the device answers with its file list only when it is addressed
CanBe(f, outcome) ==
    outcome = "ok" => (HasValidIP(directConnectIP) /\ f.url \in DevicePaths)

\* loadFiles() called without argument once for each of bys, in that order
Fetches(bys) == {Fetch(currentPath, loadsMade + i, bys[i]) : i \in 1..Len(bys)}

\* loadFiles from the settling of its fetch to its return; its caller then
\* starts the loads of bys
LoadFilesReturns(f, outcome, bys) ==
    /\ loadsMade + Len(bys) <= MaxLoads
    /\ loadsMade' = loadsMade + Len(bys)
    /\ fetching' = (fetching \ {f}) \cup Fetches(bys)
    /\ IF outcome = "ok"
       THEN /\ currentFiles' = Parse(f.url, f.ref)
            /\ listed' = listed \cup Elems(Parse(f.url, f.ref))
       ELSE UNCHANGED <<currentFiles, listed>>
    /\ UNCHANGED <<selectedFiles, currentPath, lastToggle>>

\* refreshExpandedFolders(): loadVirtualFiles on the expanded virtual folder
\* loads the listing again, in the background when the path is cached and
\* through renderConnectedState when the state is 'connected'
RefreshExpandedFolders(state, expanded, cached) ==
    IF expanded /\ (cached \/ state = "connected") THEN <<"view">> ELSE <<>>

\* ---------------------------------------- VirtualFolderProvider: connection
\* try { await loadFiles(); 'connected' } catch (error) { 'error' }
AttemptSettled(outcome) ==
    /\ IF LoadFilesThrows(outcome)
       THEN connectionState' = "error" /\ lastError' = FetchError(outcome)
       ELSE connectionState' = "connected" /\ lastError' = Null
    /\ attempt' = [attempt EXCEPT !.pc = "idle", !.outcome = outcome]
    /\ UNCHANGED directConnectIP

\* the fetch of a loadFiles call settles and the call returns to its
\* caller; attemptConnection(manual = true) ends with refreshExpandedFolders()
LoadFilesSettles(f, outcome, expanded, cached) ==
    /\ f \in fetching
    /\ CanBe(f, outcome)
    /\ IF f.by = "attemptConnection"
       THEN /\ AttemptSettled(outcome)
            /\ LoadFilesReturns(f, outcome,
                   IF attempt.manual
                   THEN RefreshExpandedFolders(connectionState', expanded, cached)
                   ELSE <<>>)
       ELSE /\ UNCHANGED providerVars
            /\ LoadFilesReturns(f, outcome, <<>>)

\* a view or the background refresh loads the listing
LoadFilesCall(pathArg) ==
    /\ LoadFiles(pathArg, "view")
    /\ UNCHANGED providerVars

AttemptConnection(manual, expanded, cached) ==
    /\ attempt.pc = "idle"
    /\ IF ~HasValidIP(directConnectIP)
       THEN /\ connectionState' = "error"
            /\ lastError' = MsgNoIP
            /\ attempt' = [attempt EXCEPT !.manual = manual, !.outcome = "none"]
            /\ UNCHANGED managerVars
       ELSE /\ connectionState' = "connecting"
            /\ lastError' = Null
            /\ LET bys == (IF manual
                           THEN RefreshExpandedFolders("connecting", expanded, cached)
                           ELSE <<>>) \o <<"attemptConnection">>
               IN  /\ loadsMade + Len(bys) <= MaxLoads
                   /\ loadsMade' = loadsMade + Len(bys)
                   /\ fetching' = fetching \cup Fetches(bys)
                   /\ UNCHANGED <<selectedFiles, currentPath, currentFiles,
                                  listed, lastToggle>>
            /\ attempt' = [pc |-> "loading", manual |-> manual, outcome |-> "none"]
    /\ UNCHANGED directConnectIP

CancelConnection(expanded, cached) ==
    /\ connectionState' = "disconnected"
    /\ lastError' = MsgCancelled
    /\ LET bys == RefreshExpandedFolders("disconnected", expanded, cached)
       IN  /\ loadsMade + Len(bys) <= MaxLoads
           /\ loadsMade' = loadsMade + Len(bys)
           /\ fetching' = fetching \cup Fetches(bys)
           /\ UNCHANGED <<selectedFiles, currentPath, currentFiles, listed,
                          lastToggle>>
    /\ UNCHANGED <<directConnectIP, attempt>>

\* the setting is edited in the settings tab
SetDirectConnectIP(ip) ==
    /\ directConnectIP' = ip
    /\ UNCHANGED <<connectionState, lastError, attempt, managerVars>>

notFolder == <<poolVars, caller, selectionVars, downloadVars, moreVars>>
notManager == <<providerVars, notFolder>>

\* a client of the file manager: the batch file view
NextManager ==
    \/ \E file \in listed :
          ToggleFileSelection(file) /\ UNCHANGED notManager
    \/ ClearSelection /\ UNCHANGED notManager
    \/ SelectAll /\ UNCHANGED notManager
    \/ \E dir \in listed :
          NavigateToDirectory(dir) /\ UNCHANGED notManager
    \/ NavigateUp /\ UNCHANGED notManager
    \/ \E pathArg \in {""} \cup DevicePaths :
          LoadFilesCall(pathArg) /\ UNCHANGED notFolder
    \/ \E f \in fetching, outcome \in FetchOutcomes, expanded, cached \in BOOLEAN :
          LoadFilesSettles(f, outcome, expanded, cached)
          /\ UNCHANGED notFolder

SpecManager == InitOneFile /\ [][NextManager]_vars

\* the virtual folder: connection attempts next to loads of the listing
NextConnection ==
    \/ \E pathArg \in {""} \cup DevicePaths :
          LoadFilesCall(pathArg) /\ UNCHANGED notFolder
    \/ \E f \in fetching, outcome \in FetchOutcomes, expanded, cached \in BOOLEAN :
          LoadFilesSettles(f, outcome, expanded, cached)
          /\ UNCHANGED notFolder
    \/ \E manual, expanded, cached \in BOOLEAN :
          AttemptConnection(manual, expanded, cached)
          /\ UNCHANGED notFolder
    \/ \E expanded, cached \in BOOLEAN :
          CancelConnection(expanded, cached) /\ UNCHANGED notFolder
    \/ \E ip \in IPs : SetDirectConnectIP(ip) /\ UNCHANGED notFolder

SpecConnection == InitOneFile /\ [][NextConnection]_vars

\* -------------------------------- VirtualFolderProvider: loadDirectoryFiles
\* loadDirectoryFiles up to the fetch of its loadFiles() call: the path of
\* the manager is saved and replaced by the uri of the directory
LoadDirectoryFiles(directory) ==
    IF ~directory.isDirectory
    THEN UNCHANGED <<managerVars, dirLoads>>
    ELSE /\ loadsMade < MaxLoads
         /\ loadsMade' = loadsMade + 1
         /\ dirLoads' = dirLoads \cup
                {[ref |-> loadsMade + 1, originalPath |-> currentPath]}
         /\ currentPath' = directory.uri
         /\ fetching' = fetching \cup
                {Fetch(directory.uri, loadsMade + 1, "loadDirectoryFiles")}
         /\ UNCHANGED <<selectedFiles, currentFiles, listed, lastToggle>>

\* the fetch settles, loadFiles() returns and the finally block puts the
\* saved path back
LoadDirectoryFilesSettles(f, outcome) ==
    /\ f \in fetching
    /\ f.by = "loadDirectoryFiles"
    /\ CanBe(f, outcome)
    /\ fetching' = fetching \ {f}
    /\ IF outcome = "ok"
       THEN /\ currentFiles' = Parse(f.url, f.ref)
            /\ listed' = listed \cup Elems(Parse(f.url, f.ref))
       ELSE UNCHANGED <<currentFiles, listed>>
    /\ \E d \in dirLoads :
          /\ d.ref = f.ref
          /\ currentPath' = d.originalPath
          /\ dirLoads' = dirLoads \ {d}
    /\ UNCHANGED <<selectedFiles, loadsMade, lastToggle>>

notDirectory == <<poolVars, caller, providerVars, selectionVars, downloadVars,
                  earlier, pdf>>

\* directories of the virtual folder are expanded while a view reloads the
\* listing of the current path
NextDirectory ==
    \/ \E directory \in Elems(FileList("/")) :
          LoadDirectoryFiles(directory) /\ UNCHANGED notDirectory
    \/ \E f \in fetching, outcome \in FetchOutcomes :
          LoadDirectoryFilesSettles(f, outcome) /\ UNCHANGED notDirectory
    \/ LoadFilesCall("") /\ UNCHANGED notFolder
    \/ \E f \in fetching, outcome \in FetchOutcomes :
          /\ f.by = "view"
          /\ LoadFilesSettles(f, outcome, FALSE, FALSE)
          /\ UNCHANGED notFolder

SpecDirectory == InitOneFile /\ [][NextDirectory]_vars

\* ----------------------------------------- VirtualFolderProvider: selection
virtualFolderName == "Supernote Device"

\* `${this.virtualFolderName}/${file.name}`
FilePath(file) == virtualFolderName \o "/" \o file.name

\* the entries rendered in the explorer, in document order: the root listing
\* with the children of a directory inside the directory's element
RECURSIVE Rendered(_, _)
Rendered(entries, i) ==
    IF i > Len(entries) THEN <<>>
    ELSE <<entries[i]>>
         \o (IF entries[i].isDirectory
             THEN Rendered(FileList(entries[i].uri), 1) ELSE <<>>)
         \o Rendered(entries, i + 1)

\* document.querySelectorAll('[data-supernote-file="true"]'), as the value
\* of data-file-path of each element: the file elements of the explorer
AllFiles ==
    LET shown == SelectSeq(Rendered(FileList("/"), 1), LAMBDA e : ~e.isDirectory)
    IN  [i \in 1..Len(shown) |-> FilePath(shown[i])]

\* allFiles.findIndex(el => el.getAttribute('data-file-path') === path),
\* counted from 1; 0 when no element matches
FindIndex(paths, path) ==
    IF \E i \in 1..Len(paths) : paths[i] = path
    THEN CHOOSE i \in 1..Len(paths) :
             paths[i] = path /\ \A j \in 1..(i - 1) : paths[j] # path
    ELSE 0

Max(a, b) == IF a > b THEN a ELSE b

\* the selection state as the private methods thread it
Selection == [selectedFiles |-> vfSelectedFiles, selectionMode |-> selectionMode,
              lastClickedFile |-> lastClickedFile]

\* this.selectionMode = this.selectedFiles.size > 0
UpdateSelectionMode(sel) ==
    [sel EXCEPT !.selectionMode = sel.selectedFiles # {}]

ToggleSelection(sel, filePath) ==
    UpdateSelectionMode(
        [sel EXCEPT !.selectedFiles =
            IF filePath \in @ THEN @ \ {filePath} ELSE @ \cup {filePath}])

SelectFileRange(sel, startPath, endPath) ==
    LET startIndex == FindIndex(AllFiles, startPath)
        endIndex == FindIndex(AllFiles, endPath)
    IN  IF startIndex = 0 \/ endIndex = 0 THEN sel
        ELSE UpdateSelectionMode(
                 [sel EXCEPT !.selectedFiles =
                     @ \cup {AllFiles[i] : i \in Min(startIndex, endIndex)
                                                ..Max(startIndex, endIndex)}])

ClearProviderSelection(sel) ==
    UpdateSelectionMode([sel EXCEPT !.selectedFiles = {}])

Clicked(sel, filePath) == [sel EXCEPT !.lastClickedFile = filePath]

\* handleFileClick; choice is the button pressed in the dialog of
\* showSelectionChoice, and opening a file leaves the selection alone
HandleFileClickResult(sel, file, isCtrlCmd, isShift, choice) ==
    LET filePath == FilePath(file) IN
    IF isCtrlCmd \/ sel.selectionMode
    THEN Clicked(ToggleSelection(sel, filePath), filePath)
    ELSE IF isShift /\ sel.lastClickedFile # Null
    THEN SelectFileRange(sel, sel.lastClickedFile, filePath)
    ELSE IF sel.selectedFiles # {} /\ file.extension = "note"
    THEN (IF choice = "open" THEN ClearProviderSelection(sel)
          ELSE IF choice = "select"
          THEN Clicked(ToggleSelection(sel, filePath), filePath)
          ELSE sel)
    ELSE LET sel1 == IF sel.selectedFiles # {}
                     THEN ClearProviderSelection(sel) ELSE sel
         IN  IF file.extension = "note" THEN sel1
             ELSE Clicked(ToggleSelection(sel1, filePath), filePath)

SetSelection(sel) ==
    /\ vfSelectedFiles' = sel.selectedFiles
    /\ selectionMode' = sel.selectionMode
    /\ lastClickedFile' = sel.lastClickedFile

ShownFiles == {e \in Elems(Rendered(FileList("/"), 1)) : ~e.isDirectory}
Choices == {"open", "select", "cancel"}

HandleFileClick(file, isCtrlCmd, isShift, choice) ==
    /\ SetSelection(HandleFileClickResult(Selection, file, isCtrlCmd, isShift, choice))
    /\ lastClick' = [made |-> TRUE, ctrl |-> isCtrlCmd, shift |-> isShift,
                      path |-> FilePath(file), last |-> lastClickedFile]

\* showVirtualFileContextMenu and the item picked from the menu it shows
ShowVirtualFileContextMenu(file, item) ==
    LET filePath == FilePath(file)
        sel1 == IF filePath \notin vfSelectedFiles /\ vfSelectedFiles # {}
                THEN UpdateSelectionMode(
                         [Selection EXCEPT !.selectedFiles = @ \cup {filePath}])
                ELSE Selection
    IN  /\ item = "Clear Selection" => sel1.selectedFiles # {}
        /\ item = "Select File" => sel1.selectedFiles = {}
        /\ SetSelection(
               IF item = "Clear Selection" THEN ClearProviderSelection(sel1)
               ELSE IF item = "Select File"
               THEN Clicked(ToggleSelection(sel1, filePath), filePath)
               ELSE sel1)
        /\ lastClick' = NoClick

MenuItems == {"Clear Selection", "Select File", "none"}

notSelection == <<poolVars, caller, managerVars, providerVars, downloadVars,
                  moreVars>>

NextSelection ==
    \/ \E file \in ShownFiles, isCtrlCmd, isShift \in BOOLEAN, choice \in Choices :
          HandleFileClick(file, isCtrlCmd, isShift, choice) /\ UNCHANGED notSelection
    \/ \E file \in ShownFiles, item \in MenuItems :
          ShowVirtualFileContextMenu(file, item) /\ UNCHANGED notSelection

SpecSelection == InitOneFile /\ [][NextSelection]_vars

\* ----------------------------------------------------------- BatchDownloader
maxConcurrent == 3
maxRetries == 3

\* what one call of downloadOriginalFile can come to
AttemptOutcomes == {"ok", "network", "timeout", "status", "empty", "save"}

MsgTimedOut == "Request timed out after 30 seconds"
MsgHttp == "HTTP 500: Internal Server Error"
MsgEmpty == "Downloaded file is empty"
MsgSave == "Failed to save a.note: Folder does not exist"

\* the error downloadOriginalFile throws: fetch rejects with a TypeError when
\* the device cannot be reached; its AbortError is replaced by a plain Error
Thrown(outcome) ==
    CASE outcome = "network" -> TypeError(MsgFailedToFetch)
      [] outcome = "timeout" -> Error(MsgTimedOut)
      [] outcome = "status" -> Error(MsgHttp)
      [] outcome = "empty" -> Error(MsgEmpty)
      [] outcome = "save" -> Error(MsgSave)
      [] OTHER -> NoErr

\* message.includes(part), for the messages above
Includes(message, part) ==
    \/ message = MsgFailedToFetch /\ part \in {"fetch", "Failed to fetch"}
    \/ message = part

Operations == {"downloadFiles", "convertFiles"}

MsgConversionFailed == "Conversion failed for a.note: "

MsgDownloadFailed == "Failed to download a.note: Not Found"
MsgParseFailed == "Failed to parse SuperNote file: Unexpected end of file"
MsgSaveImage == "Failed to save image 1: Folder does not exist"

\* convertSingleFile fetches without a timeout
OutcomesOf(op) ==
    IF op = "convertFiles" THEN AttemptOutcomes \ {"timeout"} ELSE AttemptOutcomes

\* convertSingleFile wraps what is thrown once the file has been fetched
ThrownBy(op, outcome) ==
    IF op # "convertFiles" THEN Thrown(outcome)
    ELSE CASE outcome = "network" -> TypeError(MsgFailedToFetch)
           [] outcome = "status" -> Error(MsgDownloadFailed)
           [] outcome = "empty" -> Error(MsgConversionFailed \o MsgParseFailed)
           [] outcome = "save" -> Error(MsgConversionFailed \o MsgSaveImage)
           [] OTHER -> NoErr

IsRetryableError(error) ==
    \/ error.name = "TypeError" /\ Includes(error.message, "fetch")
    \/ error.name = "AbortError"
    \/ /\ error.message # ""
       /\ \/ Includes(error.message, "Failed to fetch")
          \/ Includes(error.message, "NetworkError")
          \/ Includes(error.message, "ECONNREFUSED")
          \/ Includes(error.message, "ENOTFOUND")

\* mutant: whatever the error, the download is tried again
ShouldRetryAnyError(retryCount, error) == retryCount < maxRetries

\* if (retryCount < maxRetries && this.isRetryableError(error))
ShouldRetry(retryCount, error) ==
    retryCount < maxRetries /\ IsRetryableError(error)

\* mutant: every remaining file goes into the batch
BatchRest(fs, i) == SubSeq(fs, i + 1, Len(fs))

\* files.slice(i, i + this.maxConcurrent)
Batch(fs, i) == SubSeq(fs, i + 1, Min(i + maxConcurrent, Len(fs)))

\* the promise of a file has settled: retryCount, a local variable of
\* downloadOriginalFileWithRetry, is gone
SettledAs(status) == [status |-> status, retryCount |-> 0, error |-> NoErr]

\* mutant: a file that failed leaves its promise unsettled
SettledIfSuccessful(d) == d.status = "successful"

Settled(d) == d.status \in {"successful", "failed"}

\* batch.map(async (file) => ...): every file of the batch runs up to the
\* fetch of its first attempt
StartBatch(dl, fs, i) ==
    [f \in FileIds |->
        IF f \in Elems(Batch(fs, i))
        THEN [status |-> "downloading", retryCount |-> 0, error |-> NoErr]
        ELSE dl[f]]

\* the for loop from `await Promise.all(promises)` on: once every promise of
\* the batch has settled the next batch is started, or the call returns
AfterSettle(dl, res) ==
    IF \E f \in Elems(Batch(files, batchStart)) : ~Settled(dl[f])
    THEN /\ download' = dl
         /\ UNCHANGED <<batchStart, downloadFiles>>
    ELSE /\ batchStart' = batchStart + maxConcurrent
         /\ IF batchStart + maxConcurrent < Len(files)
            THEN /\ download' = StartBatch(dl, files, batchStart + maxConcurrent)
                 /\ UNCHANGED downloadFiles
            ELSE /\ download' = dl
                 /\ downloadFiles' = "resolved"

\* downloadFiles(files) and convertFiles(files, format): the same loop around
\* downloadOriginalFileWithRetry and around convertSingleFile
DownloadFiles(op, n) ==
    /\ downloadFiles = "idle"
    /\ operation' = op
    /\ files' = Run(1, n)
    /\ result' = NoResult
    /\ batchStart' = 0
    /\ IF n > 0
       THEN /\ download' = StartBatch(download, Run(1, n), 0)
            /\ downloadFiles' = "running"
       ELSE /\ UNCHANGED download
            /\ downloadFiles' = "resolved"

\* one attempt, downloadOriginalFile, ends: fetch, arrayBuffer() and
\* saveFileToAttachments; then the catch of downloadOriginalFileWithRetry
\* and, when the file settles, the try/catch around it in downloadFiles
AttemptSettles(f, outcome) ==
    /\ download[f].status = "downloading"
    /\ outcome \in OutcomesOf(operation)
    /\ LET error == ThrownBy(operation, outcome)
           d == download[f]
       IN  IF outcome = "ok"
           THEN /\ result' = [result EXCEPT !.successful = Append(@, f)]
                /\ AfterSettle([download EXCEPT ![f] = SettledAs("successful")], result')
           ELSE IF operation = "downloadFiles" /\ ShouldRetry(d.retryCount, error)
           THEN /\ download' = [download EXCEPT ![f].status = "waiting",
                                                 ![f].error = error]
                /\ UNCHANGED <<result, batchStart, downloadFiles>>
           ELSE /\ result' = [result EXCEPT !.failed =
                                  Append(@, [file |-> f, error |-> error.message])]
                /\ AfterSettle([download EXCEPT ![f] = SettledAs("failed")], result')
    /\ UNCHANGED <<operation, files>>

\* setTimeout(resolve, retryDelay) fires: the next attempt begins
RetryDelayElapses(f) ==
    /\ download[f].status = "waiting"
    /\ download' = [download EXCEPT ![f].status = "downloading",
                                     ![f].retryCount = @ + 1,
                                     ![f].error = NoErr]
    /\ UNCHANGED <<operation, files, batchStart, result, downloadFiles>>

notDownload == <<poolVars, caller, managerVars, providerVars, selectionVars,
                 moreVars>>

NextDownload ==
    \/ \E op \in Operations, n \in 0..MaxFiles :
          DownloadFiles(op, n) /\ UNCHANGED notDownload
    \/ \E f \in FileIds, outcome \in AttemptOutcomes :
          AttemptSettles(f, outcome) /\ UNCHANGED notDownload
    \/ \E f \in FileIds : RetryDelayElapses(f) /\ UNCHANGED notDownload

SpecDownload == InitOneFile /\ [][NextDownload]_vars

\* ================================================================== claims
PageOK(pageNum) ==
    bufKind = "valid" /\ pageNum \in 1..NotePages /\ pageNum \notin badPages
PageFails(pageNum) ==
    bufKind = "valid" /\ pageNum \in 1..NotePages /\ pageNum \in badPages
ValidPages(pages) == \A i \in 1..Len(pages) : pages[i] \in 1..NotePages
AllOK(pages) == \A i \in 1..Len(pages) : PageOK(pages[i])
NoneOK(pages) == \A i \in 1..Len(pages) : ~PageOK(pages[i])
Partial(pages) ==
    /\ \E i \in 1..Len(pages) : PageFails(pages[i])
    /\ \E j \in 1..Len(pages) : PageOK(pages[j])
Images(pages) == [i \in 1..Len(pages) |-> ToDataURL(pages[i])]
Succeeded(pages) == SelectSeq(pages, PageOK)
ChunkIdx(c) == 1..Len(c.chunks)
Used(c) == {c.dispatches[i].worker : i \in 1..Len(c.dispatches)}
CeilDiv(a, b) == (a + b - 1) \div b
PoolWorkers(p) == {WorkerId(p, i) : i \in 1..MaxWorkers}
\* a call made with a buffer on a pool that had at least one worker
Served(c) == c.status # "none" /\ c.hasBuffer /\ c.workerCount >= 1

\* C1: when every requested page is a valid page that rasterizes, the call
\* resolves with exactly one image per requested page, the i-th being the
\* image of the i-th page, whatever the order of the workers' answers; only
\* a fault of a worker context can reject it.
C1_OrderPreserved ==
    \A p \in Pools :
        LET c == call[p] IN
        (Served(c) /\ AllOK(c.pages)) =>
            /\ c.status = "resolved" => c.result = Images(c.pages)
            /\ c.status = "rejected" => c.error.name = "ErrorEvent"
            /\ (\A k \in ChunkIdx(c) : c.chunkStatus[k] = "resolved")
                   => c.status = "resolved"

C1_Witness ==
    \E p \in Pools :
        LET c == call[p] IN
        /\ Served(c) /\ AllOK(c.pages)
        /\ c.status = "resolved"
        /\ Len(c.chunks) >= 2
        /\ c.pages = Down(1, NotePages)

\* C2 as stated: a page failing next to a succeeding page of its chunk makes
\* the call resolve with the images of all successful pages.
C2_Original ==
    \A p \in Pools :
        LET c == call[p] IN
        (/\ Served(c) /\ ValidPages(c.pages)
         /\ c.status \in {"resolved", "rejected"}
         /\ c.error.name # "ErrorEvent"
         /\ \E k \in ChunkIdx(c) : Partial(c.chunks[k]))
        => (c.status = "resolved" /\ c.result = Images(Succeeded(c.pages)))

\* C2 amended: the worker answers a chunk with the images of exactly its
\* successful pages, in order and without placeholder, and a chunk with a
\* successful page is rejected by a worker fault only; when every chunk of
\* the call has a successful page the call resolves with the images of all
\* successful pages in input order unless a worker faults.
C2_PartialTolerated ==
    \A p \in Pools :
        LET c == call[p] IN
        Served(c) =>
            /\ \A k \in ChunkIdx(c) :
                 /\ c.chunkStatus[k] = "resolved"
                        => c.chunkValue[k] = Images(Succeeded(c.chunks[k]))
                 /\ (c.chunkStatus[k] = "rejected" /\ ~NoneOK(c.chunks[k]))
                        => c.chunkError[k].name = "ErrorEvent"
            /\ (\A k \in ChunkIdx(c) : ~NoneOK(c.chunks[k])) =>
                 /\ c.status = "resolved" => c.result = Images(Succeeded(c.pages))
                 /\ c.status = "rejected" => c.error.name = "ErrorEvent"
                 /\ (\A k \in ChunkIdx(c) : c.chunkStatus[k] = "resolved")
                        => c.status = "resolved"

C2_Witness ==
    \E p \in Pools :
        LET c == call[p] IN
        /\ Served(c)
        /\ c.status = "resolved"
        /\ Len(c.result) < Len(c.pages)
        /\ \E k \in ChunkIdx(c) : \E i, j \in 1..Len(c.chunks[k]) :
               i < j /\ PageFails(c.chunks[k][i]) /\ PageOK(c.chunks[k][j])

\* C3: a chunk none of whose pages yields an image is never resolved, its
\* answer rejects the whole call, and the call never resolves, also when
\* other chunks of the call produced images.
C3_AllFailRejects ==
    \A p \in Pools :
        LET c == call[p] IN
        Served(c) =>
            \A k \in ChunkIdx(c) :
                NoneOK(c.chunks[k]) =>
                    /\ c.chunkStatus[k] # "resolved"
                    /\ c.status # "resolved"
                    /\ c.chunkStatus[k] = "rejected" => c.status = "rejected"

C3_Witness ==
    \E p \in Pools :
        LET c == call[p] IN
        /\ Served(c)
        /\ c.status = "rejected"
        /\ c.error = Error(MsgNoImages)
        /\ \E j, k \in ChunkIdx(c) :
               /\ c.chunkStatus[j] = "resolved" /\ c.chunkValue[j] # <<>>
               /\ NoneOK(c.chunks[k]) /\ c.chunkStatus[k] = "rejected"

\* C4 as stated: a call without source buffer is rejected and no worker has
\* been constructed for the converter and nothing has been posted.
C4_Original ==
    \A p \in Pools :
        LET c == call[p] IN
        (c.status # "none" /\ ~c.hasBuffer) =>
            /\ c.status = "rejected"
            /\ c.error = Error(MsgBufferRequired)
            /\ c.dispatches = <<>>
            /\ \A w \in PoolWorkers(p) : wstate[w] = "none"

\* C4 amended: a call without source buffer is rejected at once with the
\* descriptive error; the call constructs no worker, installs no handler and
\* posts no message (the workers of the converter exist since its
\* constructor ran).
C4_NoBufferRejects ==
    [][\A p \in Pools :
         (callsMade'[p] # callsMade[p] /\ ~call'[p].hasBuffer) =>
             /\ call'[p].status = "rejected"
             /\ call'[p].error = Error(MsgBufferRequired)
             /\ UNCHANGED <<wstate, workers, inbox, onmessage, onerror,
                            nextBuf, detached>>]_vars

C4_Witness ==
    \E p \in Pools :
        LET c == call[p] IN
        /\ c.status = "rejected" /\ ~c.hasBuffer
        /\ c.error = Error(MsgBufferRequired)
        /\ \E w \in PoolWorkers(p) : wstate[w] = "alive"

\* C5 as stated: with more pages than workers every worker receives a chunk.
C5_Original ==
    \A p \in Pools :
        LET c == call[p] IN
        (Served(c) /\ Len(c.pages) > c.workerCount)
            => Cardinality(Used(c)) = c.workerCount

\* C5 amended: with N pages and W workers, N > W, a request is posted to
\* exactly ceil(N / ceil(N / W)) distinct workers, one chunk each; that is at
\* most W, and W when W divides N.
C5_WorkersUsed ==
    \A p \in Pools :
        LET c == call[p]
            n == Len(c.pages)
            w == c.workerCount
        IN  (Served(c) /\ n > w) =>
                /\ Cardinality(Used(c)) = CeilDiv(n, CeilDiv(n, w))
                /\ Cardinality(Used(c)) = Len(c.dispatches)
                /\ Cardinality(Used(c)) <= w
                /\ n % w = 0 => Cardinality(Used(c)) = w

C5_Witness ==
    \E p \in Pools :
        LET c == call[p] IN
        /\ Served(c) /\ Len(c.pages) > c.workerCount
        /\ Cardinality(Used(c)) >= 2
        /\ Cardinality(Used(c)) < c.workerCount

\* C7: once terminate() has been called the pool owns no worker, no worker
\* constructed for it is alive, and each of them was terminated exactly
\* once, however many times terminate() was called and whatever the outcome
\* of the conversion.
C7_TerminateLeavesNone ==
    \A p \in Pools :
        /\ terminateCalls[p] >= 1 =>
             /\ workers[p] = <<>>
             /\ \A w \in PoolWorkers(p) :
                    /\ wstate[w] # "alive"
                    /\ wstate[w] = "terminated" => termCount[w] = 1
        /\ terminateCalls[p] = 0 => \A w \in PoolWorkers(p) : termCount[w] = 0

C7_Witness ==
    \E p \in Pools :
        /\ terminateCalls[p] >= 2
        /\ call[p].status = "rejected" /\ call[p].afterTerminate = 0
        /\ \E w \in PoolWorkers(p) : wstate[w] = "terminated" /\ termCount[w] = 1

Quiescent == caller.pc \in {"idle", "done", "failed"}

C8_ConverterScoped ==
    /\ \A p \in Pools : callsMade[p] <= 1 /\ terminateCalls[p] <= 1
    /\ Quiescent =>
         /\ \A w \in Workers : wstate[w] # "alive"
         /\ \A p \in Pools :
                constructed[p] => (callsMade[p] = 1 /\ terminateCalls[p] = 1)

C8_Witness ==
    /\ caller.pc = "failed"
    /\ call[caller.pool].status = "rejected"
    /\ terminateCalls[caller.pool] = 1
    /\ \E w \in PoolWorkers(caller.pool) : wstate[w] = "terminated"

FaultFires(w) == faulted'[w] /\ ~faulted[w]
Outstanding(w) ==
    /\ Targets(PoolOf(w), onerror[w])
    /\ call[PoolOf(w)].chunkStatus[onerror[w].idx] = "pending"

\* C9 as stated: a fault of a worker whose chunk is outstanding rejects the
\* call with that fault.
C9_Original ==
    [][\A w \in Workers :
         (FaultFires(w) /\ Outstanding(w)) =>
             /\ call'[PoolOf(w)].status = "rejected"
             /\ call'[PoolOf(w)].error = ErrorEvent(w)]_vars

\* C9 amended: a fault of a worker whose chunk is outstanding rejects that
\* chunk with the fault and leaves the call rejected, never resolved or
\* pending; the call's rejection is that fault when the call was still
\* pending, and stays the earlier error when another chunk had already
\* rejected the call.
C9_FaultRejects ==
    [][\A w \in Workers :
         (FaultFires(w) /\ Outstanding(w)) =>
             LET p == PoolOf(w) IN
             /\ call'[p].status = "rejected"
             /\ call'[p].chunkStatus[onerror[w].idx] = "rejected"
             /\ call'[p].chunkError[onerror[w].idx] = ErrorEvent(w)
             /\ call[p].status = "pending" => call'[p].error = ErrorEvent(w)
             /\ call[p].status # "pending" => call'[p].error = call[p].error]_vars

C9_Witness ==
    \E w \in Workers :
        LET c == call[PoolOf(w)] IN
        /\ faulted[w]
        /\ c.status = "rejected"
        /\ c.error = ErrorEvent(w)
        /\ Len(c.chunks) >= 2

\* C10 as stated: after terminate() no call resolves or posts a request.
C10_Original ==
    \A p \in Pools :
        LET c == call[p] IN
        (c.status # "none" /\ c.afterTerminate >= 1) =>
            /\ c.status # "resolved"
            /\ c.dispatches = <<>>

\* C10 amended: after terminate() no call posts a request to any worker, and
\* a call with a non-empty page list is rejected; only a call with an empty
\* page list resolves, with the empty list.
C10_UnusableAfterTerminate ==
    \A p \in Pools :
        LET c == call[p] IN
        (c.status # "none" /\ c.afterTerminate >= 1) =>
            /\ c.dispatches = <<>>
            /\ \A w \in PoolWorkers(p) : inbox[w] = <<>>
            /\ c.pages # <<>> => c.status = "rejected"
            /\ c.status = "resolved" => (c.pages = <<>> /\ c.result = <<>>)
            /\ c.status # "pending"

C10_Witness ==
    \E p \in Pools :
        LET c == call[p] IN
        /\ c.afterTerminate >= 1 /\ c.hasBuffer /\ c.pages # <<>>
        /\ c.status = "rejected"
        /\ c.error = TypeError(MsgUndefinedWorker)

\* C11: a call with a source buffer and an empty page list resolves with
\* the empty list; it cuts no chunk, installs no handler and posts no request
\* to any worker of the pool.
C11_EmptyResolves ==
    \A p \in Pools :
        LET c == call[p] IN
        (c.status # "none" /\ c.hasBuffer /\ c.pages = <<>>) =>
            /\ c.status = "resolved"
            /\ c.result = <<>>
            /\ c.chunks = <<>>
            /\ c.dispatches = <<>>
            /\ \A w \in PoolWorkers(p) :
                   /\ inbox[w] = <<>> /\ outbox[w] = <<>>
                   /\ onmessage[w] = NoHandler /\ onerror[w] = NoHandler

C11_Witness ==
    \E p \in Pools :
        LET c == call[p] IN
        /\ c.status = "resolved" /\ c.hasBuffer /\ c.pages = <<>>
        /\ Len(workers[p]) >= 2
        /\ \A i \in 1..Len(workers[p]) : wstate[workers[p][i]] = "alive"

Malformed == bufKind # "valid"
MalformedError ==
    IF bufKind = "small" THEN Error(MsgTooSmall)
    ELSE IF bufKind = "corrupt" THEN Error(MsgParse)
    ELSE Error(MsgNoPages)

\* C12 as stated: with a malformed source buffer the call is rejected before
\* any worker is spawned or sent a request.
C12_Original ==
    \A p \in Pools :
        LET c == call[p] IN
        (Served(c) /\ Malformed /\ c.pages # <<>>) =>
            /\ c.status = "rejected"
            /\ c.dispatches = <<>>
            /\ \A w \in PoolWorkers(p) : wstate[w] = "none"

\* C12 amended: the main side does not look at the bytes; the request of
\* every chunk is posted to the workers the constructor spawned, each worker
\* answers with the malformed-buffer error before it processes any page (no
\* answer carries an image), and the call, never resolved, is rejected with
\* that error once the first answer is delivered, or with a worker fault.
C12_MalformedRejects ==
    \A p \in Pools :
        LET c == call[p] IN
        (Served(c) /\ Malformed /\ c.pages # <<>>) =>
            /\ c.status # "resolved"
            /\ Len(c.dispatches) = Len(c.chunks)
            /\ \A k \in ChunkIdx(c) :
                   /\ c.chunkStatus[k] # "resolved"
                   /\ c.chunkStatus[k] = "rejected" =>
                          \/ c.chunkError[k] = MalformedError
                          \/ c.chunkError[k].name = "ErrorEvent"
            /\ c.status = "rejected" =>
                   \/ c.error = MalformedError
                   \/ c.error.name = "ErrorEvent"
            /\ \A w \in PoolWorkers(p) : \A i \in 1..Len(outbox[w]) :
                   /\ outbox[w][i].images = <<>>
                   /\ outbox[w][i].error = MalformedError.message

C12_Witness ==
    \E p \in Pools :
        LET c == call[p] IN
        /\ Served(c) /\ bufKind = "small"
        /\ c.status = "rejected"
        /\ c.error = Error(MsgTooSmall)
        /\ Len(c.dispatches) >= 2
        /\ \E w \in PoolWorkers(p) : wstate[w] = "alive"

Calls(p) == callsMade'[p] # callsMade[p]

\* C13: the step that makes a call posts the request of every chunk to its
\* worker and leaves every chunk pending: when the dispatcher suspends at
\* its await each chunk's pages are in its worker's queue and no answer has
\* been waited for; no request is ever posted by a later step.
C13_DispatchBeforeAwait ==
    [][/\ \A p \in Pools :
            (Calls(p) /\ call'[p].hasBuffer /\ Len(workers[p]) >= 1) =>
                LET c == call'[p] IN
                /\ Len(c.dispatches) = Len(c.chunks)
                /\ \A k \in 1..Len(c.chunks) :
                       /\ c.chunkStatus[k] = "pending"
                       /\ LET q == inbox'[c.dispatches[k].worker] IN
                          /\ Len(q) = Len(inbox[c.dispatches[k].worker]) + 1
                          /\ q[Len(q)].pageNumbers = c.chunks[k]
                /\ outbox' = outbox
       /\ \A w \in Workers :
            Len(inbox'[w]) > Len(inbox[w]) => Calls(PoolOf(w))]_vars

C13_Witness ==
    \E p \in Pools :
        LET c == call[p] IN
        /\ c.status = "pending"
        /\ Len(c.chunks) >= 3
        /\ \A k \in ChunkIdx(c) :
               /\ c.chunkStatus[k] = "pending"
               /\ inbox[c.dispatches[k].worker] # <<>>
               /\ outbox[c.dispatches[k].worker] = <<>>

\* C14: terminate() settles nothing and drains nothing: the step leaves the
\* call as it was, and from then on no event of a terminated worker reaches
\* the main side, so that the call it interrupted stays pending for ever (a
\* call changes after terminate() only by being made anew).
C14_TerminateAbandons ==
    [][/\ \A p \in Pools :
            /\ terminateCalls'[p] # terminateCalls[p] => call'[p] = call[p]
            /\ (terminateCalls[p] >= 1 /\ ~Calls(p)) => call'[p] = call[p]
       /\ \A w \in Workers :
            wstate[w] = "terminated" =>
                /\ wstate'[w] = "terminated"
                /\ inbox'[w] = inbox[w] /\ outbox'[w] = outbox[w]]_vars

C14_Witness ==
    \E p \in Pools :
        LET c == call[p] IN
        /\ terminateCalls[p] = MaxTerminate
        /\ c.afterTerminate = 0
        /\ c.status = "pending"
        /\ \E j, k \in ChunkIdx(c) :
               c.chunkStatus[j] = "resolved" /\ c.chunkStatus[k] = "pending"

\* C15 as stated: every constructed pool that has not been terminated owns
\* at least one worker, whatever maxWorkers the constructor was given.
C15_Original ==
    \A p \in Pools :
        (constructed[p] /\ terminateCalls[p] = 0) => Len(workers[p]) >= 1

\* C16 as stated: toggleFileSelection on a non-directory file flips
\* isFileSelected of that file, whichever object carries the file's key.
C16_Original ==
    (lastToggle.made /\ ~lastToggle.isDirectory)
        => lastToggle.is # lastToggle.was

NonDirectories(listing) == {f \in Elems(listing) : ~f.isDirectory}
NonDirectoryCount(listing) ==
    Cardinality({i \in 1..Len(listing) : ~listing[i].isDirectory})

\* C17: no step of the file manager leaves a directory in the selection,
\* and selectAll on an empty selection selects the non-directory files of
\* the current listing and nothing else, getSelectionCount() being their
\* number.
C17_NoDirectorySelected ==
    [][/\ \A f \in selectedFiles' : ~f.isDirectory
       /\ (SelectAll /\ selectedFiles = {}) =>
             /\ selectedFiles' = NonDirectories(currentFiles)
             /\ Cardinality(selectedFiles') = NonDirectoryCount(currentFiles)]_vars

C17_Witness ==
    /\ lastToggle.made /\ lastToggle.isDirectory
    /\ \E i \in 1..Len(currentFiles) : currentFiles[i].isDirectory
    /\ selectedFiles = NonDirectories(currentFiles)
    /\ GetSelectionCount = 2

\* C20 as stated: when attemptConnection completes with a valid IP
\* configured, the state is 'connected' only if the file list was fetched,
\* and after a failed fetch it is 'error' with lastError the failure message.
C20_Original ==
    [][(attempt.pc = "loading" /\ attempt'.pc = "idle") =>
          /\ connectionState' = "connected" => attempt'.outcome = "ok"
          /\ attempt'.outcome # "ok" =>
                /\ connectionState' = "error"
                /\ lastError' = FetchError(attempt'.outcome)]_vars

Between(startPath, endPath) ==
    {AllFiles[i] : i \in Min(FindIndex(AllFiles, startPath), FindIndex(AllFiles, endPath))
                        ..Max(FindIndex(AllFiles, startPath), FindIndex(AllFiles, endPath))}

\* C18 as stated: a Shift+click made when a previously clicked file exists
\* leaves every file from that file to the clicked one selected, also when
\* files were selected already.
C18_Original ==
    (lastClick.made /\ lastClick.shift /\ ~lastClick.ctrl /\ lastClick.last # Null)
        => Between(lastClick.last, lastClick.path) \subseteq vfSelectedFiles

Downloading == {f \in FileIds : download[f].status \in {"downloading", "waiting"}}
BatchOf(f) == (f - 1) \div maxConcurrent

\* C19: at every moment at most 3 files are being downloaded; the files of
\* a batch are started together, and a file of a later batch is started
\* only when every file of the batches before it has succeeded or failed.
C19_BatchedDownloads ==
    /\ Cardinality(Downloading) <= 3
    /\ \A f, g \in Elems(files) :
          /\ (BatchOf(f) < BatchOf(g) /\ download[g].status # "queued")
                => Settled(download[f])
          /\ BatchOf(f) = BatchOf(g)
                => (download[f].status = "queued" <=> download[g].status = "queued")
    /\ \A f \in FileIds \ Elems(files) : download[f].status = "queued"

C19_Witness ==
    /\ Len(files) > 3
    /\ download[4].status = "downloading"
    /\ \E f, g \in 1..3 :
          /\ download[f].status = "successful"
          /\ download[g].status = "failed"
          /\ \E i \in 1..Len(result.failed) :
                result.failed[i] = [file |-> g, error |-> MsgFailedToFetch]

\* C21: the chunks of a call that reaches processPages are contiguous
\* slices of the page list whose concatenation in chunk order is the page
\* list; on a pool of W >= 1 workers every chunk but the last has
\* ceil(N / W) pages, the last has between 1 and that many, and the chunk
\* of index i (from 0) is posted to worker i mod W of the pool.
C21_Partition ==
    \A p \in Pools :
        LET c == call[p]
            n == Len(c.pages)
            w == c.workerCount
        IN  (c.status # "none" /\ c.hasBuffer) =>
                /\ Flat(c.chunks) = c.pages
                /\ \A k \in ChunkIdx(c) : Len(c.chunks[k]) >= 1
                /\ w >= 1 =>
                     /\ \A k \in ChunkIdx(c) :
                          /\ Len(c.chunks[k]) <= CeilDiv(n, w)
                          /\ k < Len(c.chunks) => Len(c.chunks[k]) = CeilDiv(n, w)
                          /\ c.chunks[k] =
                                SubSeq(c.pages, (k - 1) * CeilDiv(n, w) + 1,
                                       Min(k * CeilDiv(n, w), n))
                     /\ Len(c.dispatches) = Len(c.chunks)
                     /\ \A k \in ChunkIdx(c) :
                          c.dispatches[k].worker = WorkerId(p, ((k - 1) % w) + 1)

C21_Witness ==
    \E p \in Pools :
        LET c == call[p] IN
        /\ Served(c)
        /\ c.workerCount = 2
        /\ c.pages = Down(1, 3)
        /\ c.chunks = << <<3, 2>>, <<1>> >>
        /\ c.dispatches[2].worker = WorkerId(p, 2)

\* the failure kind a rejection tells its receiver
KindOf(error) ==
    CASE error.name = "ErrorEvent" -> "fault"
      [] error = Error(MsgBufferRequired) -> "absent"
      [] error \in {Error(MsgTooSmall), Error(MsgParse), Error(MsgNoPages)}
            -> "malformed"
      [] error = Error(MsgNoImages) -> "noimages"
      [] OTHER -> "other"

\* the failure kinds that can have hit chunk k of call c
KindsOf(c, k) ==
    (IF bufKind # "valid" THEN {"malformed"} ELSE {})
    \cup (IF bufKind = "valid" /\ NoneOK(c.chunks[k]) THEN {"noimages"} ELSE {})
    \cup {"fault"}

\* C22: on a pool with workers, a call without source buffer is rejected
\* with the absent-buffer message; a chunk is rejected only with the
\* message of a failure kind that hit it (malformed or too-small buffer, no
\* image from any of its pages, a fault of its worker), the messages of
\* the kinds differ, and a rejected call carries the rejection of one of
\* its chunks; a chunk hit by malformed bytes or without any image is never
\* resolved, and a chunk with a failing page and at least one image is
\* rejected by nothing but a fault of its worker.
C22_FailureKinds ==
    /\ Cardinality({MsgBufferRequired, MsgTooSmall, MsgParse, MsgNoPages,
                    MsgNoImages}) = 5
    /\ \A p \in Pools :
         LET c == call[p] IN
         /\ (c.status # "none" /\ ~c.hasBuffer) =>
                (c.status = "rejected" /\ KindOf(c.error) = "absent")
         /\ Served(c) =>
                /\ \A k \in ChunkIdx(c) :
                     /\ c.chunkStatus[k] = "rejected" =>
                          /\ KindOf(c.chunkError[k]) \in KindsOf(c, k)
                          /\ KindOf(c.chunkError[k]) = "fault" =>
                                c.chunkError[k].worker = c.dispatches[k].worker
                          /\ KindOf(c.chunkError[k]) = "malformed" =>
                                c.chunkError[k] = MalformedError
                     /\ c.chunkStatus[k] = "resolved" =>
                          (bufKind = "valid" /\ ~NoneOK(c.chunks[k]))
                /\ c.status = "rejected" =>
                     \E k \in ChunkIdx(c) :
                        c.chunkStatus[k] = "rejected" /\ c.error = c.chunkError[k]
                /\ c.status = "resolved" =>
                     \A k \in ChunkIdx(c) : c.chunkStatus[k] = "resolved"

C22_Witness ==
    \E p \in Pools :
        LET c == call[p] IN
        /\ Served(c)
        /\ c.status = "rejected"
        /\ KindOf(c.error) = "fault"
        /\ \E j, k \in ChunkIdx(c) :
               /\ Partial(c.chunks[j]) /\ c.chunkStatus[j] = "resolved"
               /\ c.chunkStatus[k] = "rejected"
               /\ c.chunkError[k] = c.error

\* C23: a call on a pool with at least one worker makes at most as many
\* chunks as the pool has workers and posts them to distinct workers: when
\* the call is made every worker it uses receives one request and has the
\* handlers of one chunk, so no handler of a chunk of the call is replaced
\* by another chunk of the same call.
C23_ChunksWithinWorkers ==
    [][\A p \in Pools :
         (callsMade'[p] # callsMade[p] /\ Served(call'[p])) =>
             LET c == call'[p] IN
             /\ Len(c.chunks) <= c.workerCount
             /\ \A j, k \in ChunkIdx(c) :
                    j # k => c.dispatches[j].worker # c.dispatches[k].worker
             /\ \A k \in ChunkIdx(c) :
                    LET w == c.dispatches[k].worker IN
                    /\ onmessage'[w] = [call |-> c.id, idx |-> k]
                    /\ onerror'[w] = [call |-> c.id, idx |-> k]
                    /\ Len(inbox'[w]) = Len(inbox[w]) + 1]_vars

C23_Witness ==
    \E p \in Pools :
        LET c == call[p] IN
        /\ Served(c)
        /\ c.workerCount = 3
        /\ Len(c.chunks) = 3
        /\ \A k \in ChunkIdx(c) : c.chunkStatus[k] = "pending"

\* C24 as stated: of two calls made on one pool, each that resolves carries
\* the images of its own pages, and once no request and no answer of the
\* pool is left neither call is pending.
C24_Original ==
    \A p \in Pools :
        earlier[p].status # "none" =>
            \A c \in {earlier[p], call[p]} :
                /\ c.status = "resolved" => c.result = Images(Succeeded(c.pages))
                /\ (\A w \in PoolWorkers(p) : inbox[w] = <<>> /\ outbox[w] = <<>>)
                      => c.status # "pending"

InResult(f) ==
    Cardinality({i \in 1..Len(result.successful) : result.successful[i] = f})
    + Cardinality({i \in 1..Len(result.failed) : result.failed[i].file = f})

\* C25: a downloadFiles or convertFiles call never stops on a failed file:
\* while it runs a file is in progress and no file is recorded twice, and
\* when it resolves every file passed has been attempted and appears
\* exactly once across result.successful and result.failed, which together
\* have files.length entries, and no other file appears.
C25_EveryFileAccounted ==
    /\ downloadFiles \in {"idle", "running", "resolved"}
    /\ \A f \in FileIds : InResult(f) <= 1
    /\ downloadFiles = "running" => Downloading # {}
    /\ downloadFiles = "resolved" =>
         /\ Len(result.successful) + Len(result.failed) = Len(files)
         /\ \A f \in Elems(files) :
                /\ InResult(f) = 1
                /\ download[f].status \in {"successful", "failed"}
                /\ download[f].status = "successful" <=>
                      \E i \in 1..Len(result.successful) : result.successful[i] = f
         /\ \A f \in FileIds \ Elems(files) : InResult(f) = 0

C25_Witness ==
    /\ downloadFiles = "resolved"
    /\ operation = "convertFiles"
    /\ Len(files) = 4
    /\ download[1].status = "failed"
    /\ download[2].status = "successful"
    /\ download[4].status = "successful"
    /\ Len(result.failed) = 2

\* C26: a file is attempted at most 4 times: its retry count never exceeds
\* 3 and grows by one at each further attempt; a further attempt is
\* scheduled only on an error isRetryableError accepts and with fewer than
\* 3 retries made; a file fails with the error of its latest attempt,
\* which is either not retryable or the error of the 4th attempt.
C26_RetryLimit ==
    [][\A f \in FileIds :
         LET d == download[f]
             after == download'[f]
         IN  /\ after.retryCount <= 3
             /\ after.retryCount > d.retryCount =>
                  /\ d.status = "waiting" /\ after.status = "downloading"
                  /\ after.retryCount = d.retryCount + 1
                  /\ IsRetryableError(d.error)
             /\ (d.status = "downloading" /\ after.status = "waiting") =>
                  /\ IsRetryableError(after.error)
                  /\ d.retryCount < 3
             /\ (d.status = "downloading" /\ after.status = "failed") =>
                  LET e == result'.failed[Len(result'.failed)] IN
                  /\ e.file = f
                  /\ Len(result'.failed) = Len(result.failed) + 1
                  /\ \E outcome \in AttemptOutcomes \ {"ok"} :
                        /\ e.error = ThrownBy(operation, outcome).message
                        /\ (/\ operation = "downloadFiles"
                            /\ IsRetryableError(ThrownBy(operation, outcome)))
                              => d.retryCount = 3]_vars

C26_Witness ==
    /\ operation = "downloadFiles"
    /\ \E i, j \in 1..Len(result.failed) :
          /\ result.failed[i] = [file |-> 2, error |-> MsgFailedToFetch]
          /\ result.failed[j] = [file |-> 1, error |-> MsgHttp]
    /\ download[3].status = "downloading"
    /\ download[3].retryCount = 3

\* C27 as stated: a file fails with the 30-second timeout only when the
\* attempt that timed out was its 4th; an earlier timeout is retried.
C27_Original ==
    [][\A f \in FileIds :
         (/\ operation = "downloadFiles"
          /\ download[f].status = "downloading"
          /\ download'[f].status = "failed"
          /\ result'.failed[Len(result'.failed)] =
                [file |-> f, error |-> MsgTimedOut])
         => download[f].retryCount = 3]_vars

\* C28 as stated: once cancelConnection has left the state 'disconnected'
\* with its lastError, the state changes only by the start of a new
\* connection attempt, which sets 'connecting' or, without a valid IP
\* address, 'error'.
C28_Original ==
    [][(connectionState = "disconnected" /\ lastError = MsgCancelled) =>
          \/ connectionState' = "disconnected"
          \/ connectionState' = "connecting" /\ attempt.pc = "idle"
          \/ connectionState' = "error" /\ lastError' = MsgNoIP]_vars

\* C29 as stated: where nothing else changes the path, which starts at
\* '/', the path of the manager is '/' again whenever no loadDirectoryFiles
\* call is in flight.
C29_Original == dirLoads = {} => currentPath = "/"

\* C30 as stated: every page of the PDF built carries the image and the
\* recognized text of the same note page.
C30_Original ==
    \A n \in 1..Len(pdf) : pdf[n].image = ToDataURL(pdf[n].text.textOf)

====
